---- MODULE Spec2Model ----
(***************************************************************************)
(* Model of the Spotlight Music helper (ytmusic_helper.py): the command    *)
(* dispatcher main, the search handler handle_search with simplify_song,   *)
(* and the stream resolution handler handle_stream_url with its fallback   *)
(* chain and the update throttle kept in a timestamp file.                 *)
(*                                                                         *)
(* Python values: None is NoneVal, a key that is absent from a dict is     *)
(* Missing; a value is truthy when it is neither None nor the empty        *)
(* string.  Time is counted in hours.                                      *)
(***************************************************************************)
EXTENDS Integers, Sequences, FiniteSets, TLC

VARIABLES now, tsFile,
          pc, argv, out, trace, fmtIdx, calls, upd,
          info, selected

vars == <<now, tsFile,
          pc, argv, out, trace, fmtIdx, calls, upd,
          info, selected>>

sharedVars == <<now, tsFile>>
procVars == <<pc, argv, out, trace, fmtIdx, calls, upd>>
fmtVars == <<info, selected>>

-----------------------------------------------------------------------------
(* Bounds of the model *)

MaxTime == 48
TickStep == 12
MaxFormats == 3
MaxResults == 3
MaxStreamFormats == 1

(* Program constants *)

ThrottleHours == 24
NumFormatStrategies == 4
MinArgc == 3

Procs == {1, 2}

NoneVal == "<None>"
Missing == "<missing>"
NoFile == -1

Truthy(x) == x # NoneVal /\ x # Missing /\ x # ""

SeqsUpTo(S, n) == UNION {[1..k -> S] : k \in 0..n}

-----------------------------------------------------------------------------
(* try_extraction: choosing the stream URL from one extracted info *)

AudioCodecs == {"none", "mp4a"}
VideoCodecs == {"none", "avc1"}
\* the abr field holds f.get("abr", 0): 0 also stands for an absent key
Bitrates == {0, 64, 128}
FormatUrls == {NoneVal, "a", "b"}

Formats == [acodec : AudioCodecs, vcodec : VideoCodecs, abr : Bitrates, url : FormatUrls]

Abr(f) == f.abr

\* list.sort(key=abr, reverse=True): stable, equal keys keep their order
RECURSIVE SortByAbrDesc(_)
SortByAbrDesc(fs) ==
    IF fs = <<>> THEN <<>>
    ELSE LET rest == SortByAbrDesc(SubSeq(fs, 1, Len(fs) - 1))
             x == fs[Len(fs)]
             k == Cardinality({i \in 1..Len(rest) : Abr(rest[i]) >= Abr(x)})
         IN SubSeq(rest, 1, k) \o <<x>> \o SubSeq(rest, k + 1, Len(rest))

IsAudioOnly(f) == f.acodec # "none" /\ f.vcodec = "none"
HasAudioAndUrl(f) == f.acodec # "none" /\ Truthy(f.url)

AudioOnlyFirstUrl(fmts) ==
    LET audio_fmts == SortByAbrDesc(SelectSeq(fmts, IsAudioOnly))
    IN IF audio_fmts # <<>> THEN audio_fmts[1].url ELSE NoneVal

AudioAnyFirstUrl(fmts) ==
    LET audio_any == SortByAbrDesc(SelectSeq(fmts, HasAudioAndUrl))
    IN IF audio_any # <<>> THEN audio_any[1].url ELSE NoneVal

\* info: kind "raise" (extract_info raised), "none" (it returned None, which
\* makes the membership test raise), or "dict"
SelectStreamUrl(i) ==
    IF i.kind # "dict" THEN NoneVal
    ELSE IF Truthy(i.url) THEN i.url
    ELSE IF i.hasFormats
         THEN LET first == AudioOnlyFirstUrl(i.formats)
              IN IF Truthy(first) THEN first ELSE AudioAnyFirstUrl(i.formats)
    ELSE NoneVal

DictInfos(n) ==
    [kind : {"dict"}, url : {Missing, "", "D"}, hasFormats : {TRUE},
     formats : SeqsUpTo(Formats, n)]
    \cup [kind : {"dict"}, url : {Missing, "", "D"}, hasFormats : {FALSE},
          formats : {<<>>}]

\* "import": yt_dlp cannot be imported, try_extraction returns None at once
FailedInfos ==
    [kind : {"raise", "none", "import"}, url : {Missing}, hasFormats : {FALSE}, formats : {<<>>}]

Infos(n) == DictInfos(n) \cup FailedInfos

-----------------------------------------------------------------------------
(* try_web_extraction and the metadata lookup: first audio format with a URL *)

MimeTypes == {<<>>, <<"audio", "mp4">>, <<"video", "mp4">>}

StreamFormats(urls) == [mime : MimeTypes, url : {NoneVal} \cup urls]

\* fmt.get('mimeType', '').startswith('audio/') and fmt.get('url')
IsAudioWithUrl(f) == Len(f.mime) >= 1 /\ f.mime[1] = "audio" /\ Truthy(f.url)

FirstAudioUrl(fmts) ==
    LET hits == SelectSeq(fmts, IsAudioWithUrl)
    IN IF hits # <<>> THEN hits[1].url ELSE NoneVal

WebOutcomes ==
    [kind : {"raise", "nomatch"}, formats : {<<>>}, adaptiveFormats : {<<>>}]
    \cup [kind : {"player"},
          formats : SeqsUpTo(StreamFormats({"W"}), MaxStreamFormats),
          adaptiveFormats : SeqsUpTo(StreamFormats({"X"}), MaxStreamFormats)]

WebUrl(o) ==
    IF o.kind # "player" THEN NoneVal
    ELSE FirstAudioUrl(o.formats \o o.adaptiveFormats)

SongOutcomes ==
    [kind : {"raise", "none", "nostreaming"}, adaptiveFormats : {<<>>}]
    \cup [kind : {"streaming"},
          adaptiveFormats : SeqsUpTo(StreamFormats({"Y", "Z"}), MaxStreamFormats)]

SongUrl(o) ==
    IF o.kind # "streaming" THEN NoneVal ELSE FirstAudioUrl(o.adaptiveFormats)

-----------------------------------------------------------------------------
(* simplify_song and the result loop of handle_search *)

ResultTypes == {"song", "video", "album"}
VideoIds == {NoneVal, "", "v1", "v2"}
Thumbnails == {<<>>, <<[url |-> "T"]>>, <<[url |-> Missing]>>}

\* a raw search item; kind "other" is an item that is not a dict (its other
\* fields are never read).  Items of a type other than song and video are
\* discarded before their thumbnails are looked at: one thumbnail list does
\* for them
Items ==
    [kind : {"dict"}, resultType : {"song", "video"}, videoId : VideoIds,
     thumbnails : Thumbnails]
    \cup [kind : {"dict"}, resultType : ResultTypes \ {"song", "video"}, videoId : VideoIds,
          thumbnails : {<<[url |-> "T"]>>}]
    \cup [kind : {"other"}, resultType : {"song"}, videoId : {"v1"}, thumbnails : {<<>>}]

\* (mutation) the videoId test is left out
simplify_song_NoIdCheck(item) ==
    IF item.kind # "dict" THEN <<>>
    ELSE IF item.resultType \notin {"song", "video"} THEN <<>>
    ELSE IF item.thumbnails # <<>> /\ item.thumbnails[Len(item.thumbnails)].url = Missing
         THEN <<>>
    ELSE <<[id |-> item.videoId,
            videoId |-> item.videoId,
            thumbnail |-> IF item.thumbnails # <<>>
                          THEN item.thumbnails[Len(item.thumbnails)].url
                          ELSE NoneVal]>>

\* simplify_song: <<>> stands for None, <<record>> for a record.  An exception
\* (item.get on a non-dict, thumbnails[-1]["url"] without the key) is caught
\* and gives None
simplify_song(item) ==
    IF item.kind # "dict" THEN <<>>
    ELSE IF item.resultType \notin {"song", "video"} THEN <<>>
    ELSE IF ~Truthy(item.videoId) THEN <<>>
    ELSE IF item.thumbnails # <<>> /\ item.thumbnails[Len(item.thumbnails)].url = Missing
         THEN <<>>
    ELSE <<[id |-> item.videoId,
            videoId |-> item.videoId,
            thumbnail |-> IF item.thumbnails # <<>>
                          THEN item.thumbnails[Len(item.thumbnails)].url
                          ELSE NoneVal]>>

RECURSIVE Simplified(_)
Simplified(results) ==
    IF results = <<>> THEN <<>>
    ELSE simplify_song(Head(results)) \o Simplified(Tail(results))

\* (mutation) the broader search is tried whenever no record was kept
NeedsUnfiltered_WhenNothingKept(results) == Simplified(results) = <<>>

\* "if not results": the filtered search returned nothing
NeedsUnfiltered(results) == results = <<>>

\* ytm.search: it raises, or returns a list
SearchOutcomes(I, n) ==
    [ok : {FALSE}, res : {<<>>}] \cup [ok : {TRUE}, res : SeqsUpTo(I, n)]

-----------------------------------------------------------------------------
(* JSON objects printed to standard output *)

JsonError(msg, arg) == [key |-> "error", msg |-> msg, arg |-> arg, items |-> <<>>]
JsonStreamUrl(url) == [key |-> "stream_url", msg |-> "", arg |-> url, items |-> <<>>]
JsonResults(items) == [key |-> "results", msg |-> "", arg |-> "", items |-> items]

TerminalError(video_id) == JsonError("Could not extract stream URL. All methods failed.", video_id)

\* load_ytmusic prints its own error object when the client cannot be built
LoadYtmusicOutput(ok) ==
    IF ok THEN <<>> ELSE <<JsonError("Failed to initialize YTMusic", "")>>

-----------------------------------------------------------------------------
(* The update throttle *)

\* (mutation) the comparison lets an update through at exactly 24 hours
should_update_ytdlp_AtLeast(ts, t, statOk) ==
    IF ~statOk THEN TRUE
    ELSE IF ts = NoFile THEN TRUE
    ELSE (t - ts) >= ThrottleHours

\* should_update_ytdlp (the second definition, which is the one in effect):
\* the file's mtime against the clock; any exception means "update"
should_update_ytdlp(ts, t, statOk) ==
    IF ~statOk THEN TRUE
    ELSE IF ts = NoFile THEN TRUE
    ELSE (t - ts) > ThrottleHours

-----------------------------------------------------------------------------
(* State *)

\* sys.argv, with the script name first
StreamArgvs == {<<"helper", "stream_url", "vidA">>}
SearchArgvs == {<<"helper", "search", "q">>}
OtherArgvs == {<<"helper">>, <<"helper", "search">>, <<"helper", "play", "vidA">>}
Argvs == StreamArgvs \cup SearchArgvs \cup OtherArgvs

\* upd[p]: the start of the update subprocess in p's invocation, with the
\* clock and the timestamp file's mtime at that moment, and whether the
\* throttle check before it could read the file
NoUpdate == [started |-> FALSE, t |-> 0, ts |-> NoFile, readable |-> TRUE]

NoInfo == [kind |-> "none", url |-> Missing, hasFormats |-> FALSE, formats |-> <<>>]

InitProcs ==
    /\ pc = [p \in Procs |-> "idle"]
    /\ argv = [p \in Procs |-> <<>>]
    /\ out = [p \in Procs |-> <<>>]
    /\ trace = [p \in Procs |-> <<>>]
    /\ fmtIdx = [p \in Procs |-> 1]
    /\ calls = [p \in Procs |-> <<>>]
    /\ upd = [p \in Procs |-> NoUpdate]

\* the timestamp file may or may not exist when the first invocation starts
Init ==
    /\ now = 0
    /\ tsFile \in {NoFile, 0}
    /\ InitProcs
    /\ info = NoInfo
    /\ selected = Missing

\* a step of handle_stream_url: the URL it yielded, whether it succeeded
Step(s, u, ok) == [s |-> s, u |-> u, ok |-> ok, readable |-> TRUE]
CheckStep(r, statOk) == [s |-> "check", u |-> NoneVal, ok |-> r, readable |-> statOk]

-----------------------------------------------------------------------------
(* main *)

\* the module's import of ytmusicapi, then main's dispatch on sys.argv
Dispatch(a, importOk) ==
    IF ~importOk THEN "import_failed"
    ELSE IF Len(a) < MinArgc THEN "usage"
    ELSE IF a[2] = "search" THEN "search_load"
    ELSE IF a[2] = "stream_url" THEN "extract"
    ELSE "unknown"

DispatchOutput(d, a) ==
    CASE d = "import_failed" -> <<JsonError("ytmusicapi not available", "")>>
      [] d = "usage" -> <<JsonError("Usage", "")>>
      [] d = "unknown" -> <<JsonError("Unknown command", a[2])>>
      [] OTHER -> <<>>

\* a helper process starts; exclusive: no other invocation is running
Main(p, Args, exclusive) ==
    /\ pc[p] = "idle"
    /\ exclusive => \A q \in Procs : pc[q] = "idle"
    /\ \E a \in Args, importOk \in BOOLEAN :
         LET d == Dispatch(a, importOk)
         IN /\ argv' = [argv EXCEPT ![p] = a]
            /\ out' = [out EXCEPT ![p] = DispatchOutput(d, a)]
            /\ pc' = [pc EXCEPT ![p] =
                        IF d \in {"search_load", "extract"} THEN d ELSE "done"]
    /\ trace' = [trace EXCEPT ![p] = <<>>]
    /\ calls' = [calls EXCEPT ![p] = <<>>]
    /\ fmtIdx' = [fmtIdx EXCEPT ![p] = 1]
    /\ upd' = [upd EXCEPT ![p] = NoUpdate]
    /\ UNCHANGED <<sharedVars, fmtVars>>

\* the process has returned from main and exits
Exit(p) ==
    /\ pc[p] = "done"
    /\ pc' = [pc EXCEPT ![p] = "idle"]
    /\ argv' = [argv EXCEPT ![p] = <<>>]
    /\ out' = [out EXCEPT ![p] = <<>>]
    /\ trace' = [trace EXCEPT ![p] = <<>>]
    /\ calls' = [calls EXCEPT ![p] = <<>>]
    /\ fmtIdx' = [fmtIdx EXCEPT ![p] = 1]
    /\ upd' = [upd EXCEPT ![p] = NoUpdate]
    /\ UNCHANGED <<sharedVars, fmtVars>>

\* the wall clock advances
Tick ==
    /\ now + TickStep <= MaxTime
    /\ now' = now + TickStep
    /\ UNCHANGED <<tsFile, procVars, fmtVars>>

-----------------------------------------------------------------------------
(* handle_stream_url *)

\* (mutation) the return after printing strategy 1's URL is missing
AfterStrategy_NoReturn(stage, url) ==
    CASE stage = "extract" -> "web"
      [] stage = "web" -> IF Truthy(url) THEN "done" ELSE "check"
      [] stage = "retry" -> IF Truthy(url) THEN "done" ELSE "load"
      [] OTHER -> "done"

\* where handle_stream_url goes after a strategy returned: it prints the URL
\* and returns, or falls through to the next strategy
AfterStrategy(stage, url) ==
    IF Truthy(url) THEN "done"
    ELSE CASE stage = "extract" -> "web"
           [] stage = "web" -> "check"
           [] stage = "retry" -> "load"
           [] OTHER -> "done"

\* what a strategy's return makes handle_stream_url print
StrategyOutput(stage, url, video_id) ==
    IF Truthy(url) THEN <<JsonStreamUrl(url)>>
    ELSE IF stage = "get_song" THEN <<TerminalError(video_id)>>
    ELSE <<>>

\* one iteration of try_extraction's loop over format_strategies (strategy 1,
\* and its retry in strategy 3); the import of yt_dlp happens before the loop
TryExtraction(p, Is) ==
    /\ pc[p] \in {"extract", "retry"}
    /\ \E i \in Is :
         /\ i.kind = "import" => fmtIdx[p] = 1
         /\ LET url == SelectStreamUrl(i)
                returns == \/ i.kind = "import"
                           \/ Truthy(url)
                           \/ fmtIdx[p] = NumFormatStrategies
            IN IF returns
               THEN /\ trace' = [trace EXCEPT ![p] = Append(@, Step(pc[p], url, Truthy(url)))]
                    /\ out' = [out EXCEPT ![p] = @ \o StrategyOutput(pc[p], url, argv[p][3])]
                    /\ pc' = [pc EXCEPT ![p] = AfterStrategy(pc[p], url)]
                    /\ fmtIdx' = [fmtIdx EXCEPT ![p] = 1]
               ELSE /\ fmtIdx' = [fmtIdx EXCEPT ![p] = @ + 1]
                    /\ UNCHANGED <<pc, out, trace>>
    /\ UNCHANGED <<sharedVars, argv, calls, upd, fmtVars>>

\* strategy 2
TryWebExtraction(p, Os) ==
    /\ pc[p] = "web"
    /\ \E o \in Os :
         LET url == WebUrl(o)
         IN /\ trace' = [trace EXCEPT ![p] = Append(@, Step("web", url, Truthy(url)))]
            /\ out' = [out EXCEPT ![p] = @ \o StrategyOutput("web", url, argv[p][3])]
            /\ pc' = [pc EXCEPT ![p] = AfterStrategy("web", url)]
    /\ UNCHANGED <<sharedVars, argv, fmtIdx, calls, upd, fmtVars>>

\* strategy 3: the throttle check
ShouldUpdate(p) ==
    /\ pc[p] = "check"
    /\ \E statOk \in BOOLEAN :
         LET r == should_update_ytdlp(tsFile, now, statOk)
         IN /\ trace' = [trace EXCEPT ![p] = Append(@, CheckStep(r, statOk))]
            /\ pc' = [pc EXCEPT ![p] = IF r THEN "update" ELSE "load"]
    /\ UNCHANGED <<sharedVars, argv, out, fmtIdx, calls, upd, fmtVars>>

\* strategy 3: update_ytdlp runs pip; mark and retry follow only a success
UpdateYtdlp(p) ==
    /\ pc[p] = "update"
    /\ \E ok \in BOOLEAN :
         /\ trace' = [trace EXCEPT ![p] = Append(@, Step("update", NoneVal, ok))]
         /\ pc' = [pc EXCEPT ![p] = IF ok THEN "mark" ELSE "load"]
    /\ upd' = [upd EXCEPT ![p] = [started |-> TRUE, t |-> now, ts |-> tsFile,
                                   readable |-> trace[p][Len(trace[p])].readable]]
    /\ UNCHANGED <<sharedVars, argv, out, fmtIdx, calls, fmtVars>>

\* strategy 3: mark_ytdlp_updated touches the file; a failure is swallowed
MarkYtdlpUpdated(p) ==
    /\ pc[p] = "mark"
    /\ \E ok \in BOOLEAN :
         /\ trace' = [trace EXCEPT ![p] = Append(@, Step("mark", NoneVal, ok))]
         /\ tsFile' = IF ok THEN now ELSE tsFile
    /\ pc' = [pc EXCEPT ![p] = "retry"]
    /\ fmtIdx' = [fmtIdx EXCEPT ![p] = 1]
    /\ UNCHANGED <<now, argv, out, calls, upd, fmtVars>>

\* strategy 4: load_ytmusic; without a client the lookup is skipped
LoadYtmusic(p) ==
    /\ pc[p] = "load"
    /\ \E ok \in BOOLEAN :
         /\ trace' = [trace EXCEPT ![p] = Append(@, Step("load", NoneVal, ok))]
         /\ out' = [out EXCEPT ![p] =
                      @ \o LoadYtmusicOutput(ok)
                        \o (IF ok THEN <<>> ELSE <<TerminalError(argv[p][3])>>)]
         /\ pc' = [pc EXCEPT ![p] = IF ok THEN "get_song" ELSE "done"]
    /\ UNCHANGED <<sharedVars, argv, fmtIdx, calls, upd, fmtVars>>

\* strategy 4: get_song and the scan of its adaptive formats
GetSong(p, Os) ==
    /\ pc[p] = "get_song"
    /\ \E o \in Os :
         LET url == SongUrl(o)
         IN /\ trace' = [trace EXCEPT ![p] = Append(@, Step("get_song", url, Truthy(url)))]
            /\ out' = [out EXCEPT ![p] = @ \o StrategyOutput("get_song", url, argv[p][3])]
            /\ pc' = [pc EXCEPT ![p] = "done"]
    /\ UNCHANGED <<sharedVars, argv, fmtIdx, calls, upd, fmtVars>>

-----------------------------------------------------------------------------
(* handle_search *)

\* load_ytmusic at the head of handle_search
SearchLoad(p) ==
    /\ pc[p] = "search_load"
    /\ \E ok \in BOOLEAN :
         /\ out' = [out EXCEPT ![p] = @ \o LoadYtmusicOutput(ok)]
         /\ pc' = [pc EXCEPT ![p] = IF ok THEN "search_filtered" ELSE "done"]
    /\ UNCHANGED <<sharedVars, argv, trace, fmtIdx, calls, upd, fmtVars>>

\* (mutation) an item that raises in simplify_song fails the whole batch
SearchOutput_FailBatch(results) ==
    IF \E i \in 1..Len(results) :
           \/ results[i].kind # "dict"
           \/ /\ simplify_song(results[i]) = <<>>
              /\ results[i].resultType \in {"song", "video"}
              /\ Truthy(results[i].videoId)
    THEN <<JsonError("Search failed", "")>>
    ELSE <<JsonResults(Simplified(results))>>

\* what handle_search prints for the list it ends up with
SearchOutput(results) == <<JsonResults(Simplified(results))>>

\* ytm.search(query, filter="songs")
SearchFiltered(p, Os) ==
    /\ pc[p] = "search_filtered"
    /\ \E o \in Os :
         /\ calls' = [calls EXCEPT ![p] = Append(@, [filter |-> "songs", ok |-> o.ok, res |-> o.res])]
         /\ IF ~o.ok
            THEN /\ out' = [out EXCEPT ![p] = @ \o <<JsonError("Search failed", "")>>]
                 /\ pc' = [pc EXCEPT ![p] = "done"]
            ELSE IF NeedsUnfiltered(o.res)
            THEN /\ pc' = [pc EXCEPT ![p] = "search_unfiltered"]
                 /\ UNCHANGED out
            ELSE /\ out' = [out EXCEPT ![p] = @ \o SearchOutput(o.res)]
                 /\ pc' = [pc EXCEPT ![p] = "done"]
    /\ UNCHANGED <<sharedVars, argv, trace, fmtIdx, upd, fmtVars>>

\* ytm.search(query): the broader search
SearchUnfiltered(p, Os) ==
    /\ pc[p] = "search_unfiltered"
    /\ \E o \in Os :
         /\ calls' = [calls EXCEPT ![p] = Append(@, [filter |-> "none", ok |-> o.ok, res |-> o.res])]
         /\ out' = [out EXCEPT ![p] =
                      @ \o (IF o.ok THEN SearchOutput(o.res)
                            ELSE <<JsonError("Search failed", "")>>)]
         /\ pc' = [pc EXCEPT ![p] = "done"]
    /\ UNCHANGED <<sharedVars, argv, trace, fmtIdx, upd, fmtVars>>

-----------------------------------------------------------------------------
(* Specifications *)

\* the inputs of the invocations of Spec: one extracted format at most, one
\* search result at most
StreamInfos ==
    {i \in Infos(1) : \A k \in 1..Len(i.formats) :
                        i.formats[k].abr = 128 /\ i.formats[k].url # "b"}

FewItems == {i \in Items : i.videoId \in {"", "v1"} /\ i.thumbnails # <<>>}

SeqProcs == {1}

\* invocations one after another, sharing the timestamp file
Next ==
    \/ \E p \in SeqProcs : Main(p, Argvs, TRUE)
    \/ \E p \in SeqProcs : TryExtraction(p, StreamInfos)
    \/ \E p \in SeqProcs : TryWebExtraction(p, WebOutcomes)
    \/ \E p \in SeqProcs : ShouldUpdate(p)
    \/ \E p \in SeqProcs : UpdateYtdlp(p)
    \/ \E p \in SeqProcs : MarkYtdlpUpdated(p)
    \/ \E p \in SeqProcs : LoadYtmusic(p)
    \/ \E p \in SeqProcs : GetSong(p, SongOutcomes)
    \/ \E p \in SeqProcs : SearchLoad(p)
    \/ \E p \in SeqProcs : SearchFiltered(p, SearchOutcomes(FewItems, 1))
    \/ \E p \in SeqProcs : SearchUnfiltered(p, SearchOutcomes(FewItems, 1))
    \/ \E p \in SeqProcs : Exit(p)
    \/ Tick

Spec == Init /\ [][Next]_vars

\* one search invocation after another, over every raw result list
NextSearch ==
    \/ Main(1, SearchArgvs, TRUE)
    \/ SearchLoad(1)
    \/ SearchFiltered(1, SearchOutcomes(Items, MaxResults))
    \/ SearchUnfiltered(1, SearchOutcomes(Items, MaxResults))
    \/ Exit(1)

InitSearch == Init /\ tsFile = NoFile

SpecSearch == InitSearch /\ [][NextSearch]_vars

\* one library extraction attempt, over every extracted info
InitFmt ==
    /\ now = 0
    /\ tsFile = NoFile
    /\ InitProcs
    /\ info \in Infos(MaxFormats)
    /\ selected = Missing

\* lines 175-196 applied to the info that extract_info returned
SelectFormat ==
    /\ selected = Missing
    /\ selected' = SelectStreamUrl(info)
    /\ UNCHANGED <<sharedVars, procVars, info>>

NextFmt == SelectFormat

SpecFmt == InitFmt /\ [][NextFmt]_vars

\* one stream_url invocation by each of two helper processes, which may
\* overlap in time
\* (each external call either fails or yields one URL)
ConcInfos == {i \in StreamInfos : i.formats = <<>> /\ i.url # "" /\ i.kind # "none"}
ConcWebOutcomes == {o \in WebOutcomes : o.formats = <<>> /\ o.kind # "nomatch"}
ConcSongOutcomes == {o \in SongOutcomes : o.kind \in {"raise", "streaming"}}

NextConc ==
    \/ \E p \in Procs : Main(p, StreamArgvs, FALSE)
    \/ \E p \in Procs : TryExtraction(p, ConcInfos)
    \/ \E p \in Procs : TryWebExtraction(p, ConcWebOutcomes)
    \/ \E p \in Procs : ShouldUpdate(p)
    \/ \E p \in Procs : UpdateYtdlp(p)
    \/ \E p \in Procs : MarkYtdlpUpdated(p)
    \/ \E p \in Procs : LoadYtmusic(p)
    \/ \E p \in Procs : GetSong(p, ConcSongOutcomes)
    \/ Tick

SpecConc == Init /\ [][NextConc]_vars

-----------------------------------------------------------------------------
(* Properties *)

StreamInvocation(p) == Len(argv[p]) >= MinArgc /\ argv[p][2] = "stream_url"
Last(sq) == sq[Len(sq)]
HasStep(tr, name) == \E i \in 1..Len(tr) : tr[i].s = name

\* C1: every invocation prints exactly one JSON object, whose key is one of
\* results, stream_url, error: never a second object while it runs, and
\* exactly one when main has returned.
C1_ExactlyOneJsonObject ==
    \A p \in Procs :
        /\ Len(out[p]) <= 1
        /\ pc[p] = "done" =>
              /\ Len(out[p]) = 1
              /\ out[p][1].key \in {"results", "stream_url", "error"}

\* C2: a stream_url invocation in which no strategy yielded a URL has
\* printed the terminal error object and nothing else.
C2_AllFailedGivesTerminalError ==
    \A p \in Procs :
        (/\ pc[p] = "done"
         /\ StreamInvocation(p)
         /\ trace[p] # <<>>
         /\ \A i \in 1..Len(trace[p]) : ~Truthy(trace[p][i].u))
        => out[p] = <<TerminalError(argv[p][3])>>

\* C3: the update subprocess is started only when the timestamp file is
\* missing, could not be read, or is strictly more than 24 hours old; so with
\* a readable timestamp recorded at T no update starts at t with t - T <= 24.
\* (The file holds the latest recorded timestamp; earlier ones are older.)
C3_NoUpdateWithin24h ==
    \A p \in Procs :
        upd[p].started =>
            \/ upd[p].ts = NoFile
            \/ ~upd[p].readable
            \/ upd[p].t - upd[p].ts > ThrottleHours

\* an update that started after a readable recorded timestamp
C3_Witness ==
    \E p \in Procs :
        /\ upd[p].started
        /\ upd[p].readable
        /\ upd[p].ts # NoFile
        /\ upd[p].t - upd[p].ts > ThrottleHours

\* C4: an invocation whose throttle check allowed the update has, when it
\* ends, run the update, then written the timestamp, then retried strategy 1,
\* whatever the update subprocess returned.
C4_MarkAndRetryAfterEveryUpdate ==
    \A p \in Procs :
        (/\ pc[p] = "done"
         /\ \E i \in 1..Len(trace[p]) : trace[p][i].s = "check" /\ trace[p][i].ok)
        => \E i, j, k \in 1..Len(trace[p]) :
              /\ i < j /\ j < k
              /\ trace[p][i].s = "update"
              /\ trace[p][j].s = "mark"
              /\ trace[p][k].s = "retry"

Rank(s) ==
    CASE s = "extract" -> 1
      [] s = "web" -> 2
      [] s = "check" -> 3
      [] s = "update" -> 4
      [] s = "mark" -> 5
      [] s = "retry" -> 6
      [] s = "load" -> 7
      [] s = "get_song" -> 8

\* the steps come in the fixed order, each after all earlier strategies were
\* tried and yielded nothing
OrderedFallback(tr) ==
    /\ \A i, j \in 1..Len(tr) :
          i < j => Rank(tr[i].s) < Rank(tr[j].s) /\ ~Truthy(tr[i].u)
    /\ Len(tr) >= 1 => tr[1].s = "extract"
    /\ Len(tr) >= 2 => tr[2].s = "web"
    /\ Len(tr) >= 3 => tr[3].s = "check"
    /\ \A j \in 2..Len(tr) :
          /\ tr[j].s = "update" => tr[j-1].s = "check" /\ tr[j-1].ok
          /\ tr[j].s = "mark" => tr[j-1].s = "update"
          /\ tr[j].s = "retry" => tr[j-1].s = "mark"
          /\ tr[j].s = "get_song" => tr[j-1].s = "load" /\ tr[j-1].ok

\* the URL printed is the one the last step yielded, and that step ended
\* the invocation
FirstUrlEmitted(p) ==
    /\ \A k \in 1..Len(out[p]) :
          out[p][k].key = "stream_url" =>
              /\ trace[p] # <<>>
              /\ Truthy(Last(trace[p]).u)
              /\ out[p] = <<JsonStreamUrl(Last(trace[p]).u)>>
    /\ (trace[p] # <<>> /\ Truthy(Last(trace[p]).u)) =>
          /\ pc[p] = "done"
          /\ out[p] = <<JsonStreamUrl(Last(trace[p]).u)>>

\* strategy 4 is tried once 1, 2 and 3 are over without a URL, whether or not
\* the throttle allowed the update
Strategy4Reached(p) ==
    (/\ pc[p] = "done"
     /\ Len(trace[p]) >= 3
     /\ ~(Last(trace[p]).s = "retry" /\ Truthy(Last(trace[p]).u)))
    => HasStep(trace[p], "load")

\* C5: the strategies run in the order 1, 2, 3, 4, each only after every
\* earlier one yielded no URL; the URL printed is the one of the first
\* strategy that yielded one, and nothing runs after it; strategy 4 follows
\* the failure of 1 and 2 whatever the throttle said.
C5_OrderedFallback ==
    \A p \in Procs :
        /\ OrderedFallback(trace[p])
        /\ FirstUrlEmitted(p)
        /\ Strategy4Reached(p)

\* the metadata lookup yielded the URL after the throttle refused the update
C5_Witness ==
    \E p \in Procs :
        /\ pc[p] = "done"
        /\ Len(trace[p]) = 5
        /\ trace[p][3].s = "check" /\ ~trace[p][3].ok
        /\ trace[p][5].s = "get_song"
        /\ out[p] = <<JsonStreamUrl("Y")>>

\* the raw list handle_search used: the result of its last search call
UsedResults(p) == Last(calls[p]).res

PassesFilters(item) ==
    /\ item.kind = "dict"
    /\ item.resultType \in {"song", "video"}
    /\ Truthy(item.videoId)

\* C6: every record of a results array has a non-empty videoId, equal to its
\* id, and comes from a raw item of type song or video with that videoId; no
\* more records than such raw items.
C6_RecordsHaveVideoId ==
    \A p \in Procs : \A k \in 1..Len(out[p]) :
        out[p][k].key = "results" =>
            LET recs == out[p][k].items
                raw == UsedResults(p)
            IN /\ \A i \in 1..Len(recs) :
                     /\ Truthy(recs[i].videoId)
                     /\ recs[i].id = recs[i].videoId
                     /\ \E j \in 1..Len(raw) :
                           PassesFilters(raw[j]) /\ raw[j].videoId = recs[i].videoId
               /\ Len(recs) <= Cardinality({j \in 1..Len(raw) : PassesFilters(raw[j])})

\* records were printed while items of another type and without a videoId
\* were in the raw list
C6_Witness ==
    \E p \in Procs :
        /\ pc[p] = "done"
        /\ Len(out[p]) = 1 /\ out[p][1].key = "results"
        /\ Len(out[p][1].items) >= 1
        /\ \E j \in 1..Len(UsedResults(p)) : UsedResults(p)[j].resultType = "album"
        /\ \E j \in 1..Len(UsedResults(p)) : ~Truthy(UsedResults(p)[j].videoId)

\* the item makes simplify_song raise (and return None)
FailsInternally(item) ==
    \/ item.kind # "dict"
    \/ /\ PassesFilters(item)
       /\ item.thumbnails # <<>>
       /\ Last(item.thumbnails).url = Missing

Normalises(item) == PassesFilters(item) /\ ~FailsInternally(item)

RecordOf(item) ==
    [id |-> item.videoId, videoId |-> item.videoId,
     thumbnail |-> IF item.thumbnails = <<>> THEN NoneVal ELSE Last(item.thumbnails).url]

\* the order-preserving subsequence of the items that normalise
ExpectedRecords(raw) ==
    LET kept == SelectSeq(raw, Normalises)
    IN [i \in 1..Len(kept) |-> RecordOf(kept[i])]

\* C7: when the search calls succeed, the results array is the
\* order-preserving subsequence of the raw list made of the items that
\* normalise; an item that fails inside simplify_song is dropped alone.
C7_ResultsAreSubsequence ==
    \A p \in Procs :
        (/\ pc[p] = "done"
         /\ calls[p] # <<>>
         /\ \A c \in 1..Len(calls[p]) : calls[p][c].ok)
        => out[p] = <<JsonResults(ExpectedRecords(UsedResults(p)))>>

\* a failing item between two good ones was dropped and the two were kept
C7_Witness ==
    \E p \in Procs :
        /\ pc[p] = "done"
        /\ calls[p] # <<>> /\ Last(calls[p]).ok
        /\ Len(UsedResults(p)) = 3
        /\ Normalises(UsedResults(p)[1])
        /\ FailsInternally(UsedResults(p)[2])
        /\ Normalises(UsedResults(p)[3])
        /\ UsedResults(p)[1].videoId # UsedResults(p)[3].videoId
        /\ Len(out[p]) = 1 /\ out[p][1].key = "results"
        /\ Len(out[p][1].items) = 2
        /\ out[p][1].items[1].videoId = UsedResults(p)[1].videoId

\* C8: the unfiltered search is issued exactly when the filtered one
\* returned an empty list; at most two calls; a non-empty filtered list is
\* the only source of the results, even when all its items are discarded.
C8_UnfilteredIffEmpty ==
    \A p \in Procs :
        /\ Len(calls[p]) <= 2
        /\ Len(calls[p]) >= 1 => calls[p][1].filter = "songs"
        /\ Len(calls[p]) = 2 =>
              /\ calls[p][2].filter = "none"
              /\ calls[p][1].ok
              /\ calls[p][1].res = <<>>
        /\ (pc[p] = "done" /\ calls[p] # <<>> /\ calls[p][1].ok /\ calls[p][1].res = <<>>)
              => Len(calls[p]) = 2
        /\ (pc[p] = "done" /\ calls[p] # <<>> /\ calls[p][1].ok /\ calls[p][1].res # <<>>)
              => /\ Len(calls[p]) = 1
                 /\ out[p] = <<JsonResults(ExpectedRecords(calls[p][1].res))>>

\* a non-empty filtered list whose items were all discarded: an empty
\* results array and no second call
C8_Witness ==
    \E p \in Procs :
        /\ pc[p] = "done"
        /\ Len(calls[p]) = 1
        /\ calls[p][1].ok
        /\ calls[p][1].res # <<>>
        /\ out[p] = <<JsonResults(<<>>)>>

\* the URLs of the formats in S with the highest bitrate of S
BestUrls(fs, S) ==
    {fs[i].url : i \in {j \in S : \A k \in S : fs[j].abr >= fs[k].abr}}

\* C9: a direct url is selected when there is one; otherwise, when some
\* audio-only format has a URL, the URL of the highest-bitrate audio-only
\* format with a URL; a format carrying video only when no audio-only format
\* has a URL.
C9_AudioOnlyPreferred ==
    (selected # Missing /\ info.kind = "dict") =>
        IF Truthy(info.url) THEN selected = info.url
        ELSE IF ~info.hasFormats THEN selected = NoneVal
        ELSE LET fs == info.formats
                 audioOnly == {i \in 1..Len(fs) : IsAudioOnly(fs[i]) /\ Truthy(fs[i].url)}
                 anyAudio == {i \in 1..Len(fs) : fs[i].acodec # "none" /\ Truthy(fs[i].url)}
             IN IF audioOnly # {} THEN selected \in BestUrls(fs, audioOnly)
                ELSE IF anyAudio # {} THEN selected \in BestUrls(fs, anyAudio)
                ELSE selected = NoneVal

MarkedOk(p) == \E i \in 1..Len(trace[p]) : trace[p][i].s = "mark" /\ trace[p][i].ok

\* C10: two overlapping invocations never both pass the throttle check (on a
\* file they could read), both run the update and both record it, with the
\* two updates started within 24 hours of each other.
C10_OneUpdaterPer24h ==
    \A p, q \in Procs :
        (/\ p # q
         /\ upd[p].started /\ upd[q].started
         /\ upd[p].readable /\ upd[q].readable
         /\ MarkedOk(p) /\ MarkedOk(q)
         /\ upd[p].t <= upd[q].t)
        => upd[q].t - upd[p].t > ThrottleHours

====
